---- MODULE Spec2Model ----
(***************************************************************************)
(* SSA-SDPD simulation engine: the neighbor search of particle.cpp         *)
(* (ParticleSystem, Particle, add_to_neighbor_list, find_neighbors) and    *)
(* the rdme lifecycle declared in simulate_rdme.h.                         *)
(*                                                                         *)
(* Three specifications share the module:                                  *)
(*   Spec      the neighbor lists of a particle system                     *)
(*   SpecCtor  the two constructors                                        *)
(*   SpecRdme  initialize_rdme / simulate_rdme / destroy_rdme              *)
(* Each leaves the variables of the other two at their initial values.     *)
(***************************************************************************)
EXTENDS Integers, Sequences, FiniteSets

VARIABLES
    h,                  \* ParticleSystem::h, the support radius
    x,                  \* Particle::x[3], per particle
    mass,               \* Particle::mass
    rho,                \* Particle::rho
    neighbors,          \* Particle::neighbors, per particle, in push order
    kdTree_pts,         \* the points the k-d tree was built from
    kdTree_initialize,  \* ParticleSystem::kdTree_initialize
    exited,             \* exit(1) was called
    rc,                 \* value returned by the last add_to_neighbor_list
    hist,               \* per particle: how its list came about
    sysargs,            \* arguments of the ParticleSystem constructor call
    sysfields,          \* the fields the constructor leaves behind
    pid_arg,            \* argument of the Particle constructor call
    pfields,            \* the fields the Particle constructor leaves behind
    rdme,               \* the rdme_t state (matrices: irN .. jcG are set)
    rdme_held,          \* matrices and heap acquired minus released
    rdme_err            \* what the last rdme call signalled

nbvars   == <<h, x, mass, rho, neighbors, kdTree_pts, kdTree_initialize,
              exited, rc, hist>>
ctorvars == <<sysargs, sysfields, pid_arg, pfields>>
rdmevars == <<rdme, rdme_held, rdme_err>>
vars     == <<nbvars, ctorvars, rdmevars>>

----------------------------------------------------------------------------
(* Bounds of the model. *)

MaxCoord == 2
MaxNeighbors == 2
MaxCount == 1
MaxEvents == 6

Ids == {0, 1}
\* Particle 0 stays at the origin, where its constructor put it; the other
\* particle moves relative to it.
Movers == Ids \ {0}
Coords == 0 .. MaxCoord
R2Values == 0 .. (MaxCoord * MaxCoord)
HValues == {0, 1, 2}
MassValues == {1, 2}
RhoValues == {0, 1}

----------------------------------------------------------------------------
(* double arithmetic.  A double is a record: c is its class ("fin",        *)
(* "pinf", "ninf", "nan"); a finite value is (n/d) * K^k * PI^p, with n/d  *)
(* in lowest terms, d > 0, K the kernel constant 25.066903536973515383 of  *)
(* line 93 and PI the M_PI of line 85, both positive and carried as        *)
(* symbols.  The operations follow IEEE 754 for the special values.  The   *)
(* inputs are non-negative, so every zero that reaches a divisor is +0.    *)

RECURSIVE GCD(_, _)
GCD(a, b) == IF b = 0 THEN a ELSE GCD(b, a % b)

Abs(a) == IF a < 0 THEN -a ELSE a

\* The one element of a singleton set.  Each operation below takes its
\* operands through singleton sets, so that an operand is evaluated once.
Val(S) == CHOOSE v \in S : TRUE

NaN  == [c |-> "nan",  n |-> 0, d |-> 1, k |-> 0, p |-> 0]
PInf == [c |-> "pinf", n |-> 0, d |-> 1, k |-> 0, p |-> 0]
NInf == [c |-> "ninf", n |-> 0, d |-> 1, k |-> 0, p |-> 0]

Fin(n, d, k, p) ==
    IF n = 0 THEN [c |-> "fin", n |-> 0, d |-> 1, k |-> 0, p |-> 0]
    ELSE Val({ [c |-> "fin", n |-> n \div g, d |-> d \div g, k |-> k, p |-> p] :
               g \in {GCD(Abs(n), d)} })

Num(i) == Fin(i, 1, 0, 0)
KernelK == Fin(1, 1, 1, 0)
M_PI == Fin(1, 1, 0, 1)

IsInf(a) == a.c \in {"pinf", "ninf"}
IsZero(a) == a.c = "fin" /\ a.n = 0
Sign(a) == CASE a.c = "pinf" -> 1
             [] a.c = "ninf" -> -1
             [] a.c = "fin" -> (IF a.n > 0 THEN 1 ELSE IF a.n < 0 THEN -1 ELSE 0)
             [] OTHER -> 0
InfOf(s) == IF s < 0 THEN NInf ELSE PInf

isnan(a) == a.c = "nan"
isfinite(a) == a.c = "fin"

FMul(a0, b0) ==
    Val({ IF isnan(a) \/ isnan(b) THEN NaN
          ELSE IF IsInf(a) \/ IsInf(b)
               THEN IF IsZero(a) \/ IsZero(b) THEN NaN
                    ELSE InfOf(Sign(a) * Sign(b))
          ELSE IF a.n = 0 \/ b.n = 0 THEN Fin(0, 1, 0, 0)
          ELSE Val({ Fin((a.n \div g1) * (b.n \div g2),
                         (a.d \div g2) * (b.d \div g1), a.k + b.k, a.p + b.p) :
                     g1 \in {GCD(Abs(a.n), b.d)}, g2 \in {GCD(Abs(b.n), a.d)} })
          : a \in {a0}, b \in {b0} })

FDiv(a0, b0) ==
    Val({ IF isnan(a) \/ isnan(b) THEN NaN
          ELSE IF IsInf(a)
               THEN IF IsInf(b) THEN NaN
                    ELSE InfOf(Sign(a) * (IF Sign(b) < 0 THEN -1 ELSE 1))
          ELSE IF IsInf(b) THEN Fin(0, 1, 0, 0)
          ELSE IF IsZero(b)
               THEN IF IsZero(a) THEN NaN ELSE InfOf(Sign(a))
          ELSE FMul(a, Fin(Sign(b) * b.d, Abs(b.n), -b.k, -b.p))
          : a \in {a0}, b \in {b0} })

\* Sums are only ever taken of values with the same symbolic factor.
FAdd(a0, b0) ==
    Val({ IF isnan(a) \/ isnan(b) THEN NaN
          ELSE IF IsInf(a) /\ IsInf(b) THEN (IF a.c = b.c THEN a ELSE NaN)
          ELSE IF IsInf(a) THEN a
          ELSE IF IsInf(b) THEN b
          ELSE Fin(a.n * b.d + b.n * a.d, a.d * b.d,
                   IF IsZero(a) THEN b.k ELSE a.k,
                   IF IsZero(a) THEN b.p ELSE a.p)
          : a \in {a0}, b \in {b0} })

FNeg(a0) ==
    Val({ CASE a.c = "pinf" -> NInf
            [] a.c = "ninf" -> PInf
            [] a.c = "fin" -> Fin(-a.n, a.d, a.k, a.p)
            [] OTHER -> NaN
          : a \in {a0} })

FSub(a, b) == FAdd(a, FNeg(b))

\* a > b on doubles: false when either is NaN.
FGt(a0, b0) ==
    \E a \in {a0}, b \in {b0} :
       IF isnan(a) \/ isnan(b) THEN FALSE
       ELSE IF a.c = "pinf" THEN b.c # "pinf"
       ELSE IF a.c = "ninf" THEN FALSE
       ELSE IF b.c = "pinf" THEN FALSE
       ELSE IF b.c = "ninf" THEN TRUE
       ELSE a.n * b.d > b.n * a.d

FEq(a, b) == ~isnan(a) /\ ~isnan(b) /\ a = b

\* sqrt of a squared distance.  The particles sit on an integer lattice
\* along one axis, so every squared distance is a perfect square and the
\* root is exact, as it is in double arithmetic.
Isqrt(n) == CHOOSE r \in 0 .. n : r * r <= n /\ (r + 1) * (r + 1) > n
sqrt(r2) == Num(Isqrt(r2))

----------------------------------------------------------------------------
(* particle.cpp *)

ANN_DIST_INF == 1000000
ANN_NULL_IDX == -1

Origin == <<0, 0, 0>>

\* Particle::particle_dist_sqrd, on two positions.
dist_sqrd(u, v) ==
    LET a == u[1] - v[1]
        b == u[2] - v[2]
        c == u[3] - v[3]
    IN  a * a + b * b + c * c

\* this->particle_dist_sqrd(neighbor): the particles' current positions.
particle_dist_sqrd(me, p2) == dist_sqrd(x[me], x[p2])

\* Line 75-77: a distance the search did not set is recomputed.
effective_r2(me, neighbor, r2) ==
    IF r2 = ANN_DIST_INF THEN particle_dist_sqrd(me, neighbor) ELSE r2

OutsideSupport_Inverted(r, hh) == FGt(hh, r)

OutsideSupport_None(r, hh) == FALSE

\* Line 80: if(r > system.h) return 0.
OutsideSupport(r, hh) == FGt(r, hh)

\* Lines 83-86.
dWdr_of(r, hh) ==
    Val({ FMul(FMul(alpha, FDiv(FMul(Num(-12), r), FMul(hh, hh))),
               FMul(oneR, oneR)) :
          alpha \in {FDiv(Num(105),
                          FMul(FMul(FMul(FMul(Num(16), M_PI), hh), hh), hh))},
          oneR \in {FSub(Num(1), FDiv(r, hh))} })

wfd_positive(r, hh) ==
    Val({ FMul(FMul(FMul(FMul(FMul(FMul(KernelK, dhr), dhr), ihsq), ihsq),
                    ihsq), ih) :
          ih \in {FDiv(Num(1), hh)},
          ihsq \in {FMul(FDiv(Num(1), hh), FDiv(Num(1), hh))},
          dhr \in {FSub(hh, r)} })

\* Lines 90-93.
wfd_of(r, hh) ==
    Val({ FMul(FMul(FMul(FMul(FMul(FMul(FNeg(KernelK), dhr), dhr), ihsq), ihsq),
                    ihsq), ih) :
          ih \in {FDiv(Num(1), hh)},
          ihsq \in {FMul(FDiv(Num(1), hh), FDiv(Num(1), hh))},
          dhr \in {FSub(hh, r)} })

D_i_j_owner_only(m, nm, rh, nrh, r2, wfd, hh) ==
    FDiv(FMul(FMul(FDiv(FMul(FDiv(FMul(Num(-2), FMul(m, m)), FAdd(m, nm)),
                             FAdd(rh, nrh)),
                        FMul(rh, nrh)),
                   r2),
              wfd),
         FAdd(r2, FMul(FMul(Fin(1, 100, 0, 0), hh), hh)))

\* Line 95, evaluated left to right as C does.
D_i_j_of(m, nm, rh, nrh, r2, wfd, hh) ==
    FDiv(FMul(FMul(FDiv(FMul(FDiv(FMul(Num(-2), FMul(m, nm)), FAdd(m, nm)),
                             FAdd(rh, nrh)),
                        FMul(rh, nrh)),
                   r2),
              wfd),
         FAdd(r2, FMul(FMul(Fin(1, 100, 0, 0), hh), hh)))

\* Line 97: the value that makes add_to_neighbor_list call exit(1).
IsFatal(D) == isnan(D)

\* Lines 78-95 on the values of one call: the distance, whether the pair
\* is cut off, and the two coefficients.
pair_values(m, nm, rh, nrh, r2, hv) ==
    Val({ [out |-> OutsideSupport(r, hh),
           r |-> r,
           dWdr |-> dWdr_of(r, hh),
           D_i_j |-> D_i_j_of(Num(m), Num(nm), Num(rh), Num(nrh), Num(r2),
                              wfd_of(r, hh), hh)] :
          r \in {sqrt(r2)}, hh \in {Num(hv)} })

\* pair_values over the values the model draws from, computed once.
PairTable ==
    [m \in MassValues, nm \in MassValues, rh \in RhoValues, nrh \in RhoValues,
     r2 \in R2Values, hv \in HValues |-> pair_values(m, nm, rh, nrh, r2, hv)]

\* Particle::add_to_neighbor_list, as a function of the state: what the
\* call does ("out": return 0; "exit": exit(1); "push": the edge pushed,
\* return 1).
add_outcome(me, neighbor, r2in) ==
    Val({ IF v.out THEN [kind |-> "out"]
          ELSE IF IsFatal(v.D_i_j) THEN [kind |-> "exit"]
          ELSE [kind |-> "push",
                edge |-> [n |-> neighbor, r |-> v.r, dWdr |-> v.dWdr,
                          D_i_j |-> v.D_i_j]] :
          v \in {PairTable[mass[me], mass[neighbor], rho[me], rho[neighbor],
                             effective_r2(me, neighbor, r2in), h]} })

----------------------------------------------------------------------------
(* The k-d tree (ANN), by its documented contract: annkFRSearch(q, sqRad,  *)
(* k, nn_idx, dists) returns the number of indexed points whose squared    *)
(* distance to q is at most sqRad and stores the k nearest of them, in     *)
(* increasing distance; unused entries hold ANN_NULL_IDX and ANN_DIST_INF. *)

nPoints == Cardinality(DOMAIN kdTree_pts)

InRadius(q, sqRad) == {i \in DOMAIN kdTree_pts : dist_sqrd(q, kdTree_pts[i]) <= sqRad}

Nearer(q, i, j) ==
    \/ dist_sqrd(q, kdTree_pts[i]) < dist_sqrd(q, kdTree_pts[j])
    \/ dist_sqrd(q, kdTree_pts[i]) = dist_sqrd(q, kdTree_pts[j]) /\ i <= j

RECURSIVE ByDistance(_, _)
ByDistance(q, S) ==
    IF S = {} THEN <<>>
    ELSE LET m == CHOOSE i \in S : \A j \in S : Nearer(q, i, j)
         IN  <<m>> \o ByDistance(q, S \ {m})

annkFRSearch(q, sqRad, k) ==
    Val({ [cnt |-> Len(found),
           nn_idx |-> [i \in 1 .. k |->
                         IF i <= Len(found) THEN found[i] ELSE ANN_NULL_IDX],
           dists |-> [i \in 1 .. k |->
                         IF i <= Len(found)
                         THEN dist_sqrd(q, kdTree_pts[found[i]])
                         ELSE ANN_DIST_INF]] :
          found \in {ByDistance(q, InRadius(q, sqRad))} })

----------------------------------------------------------------------------

get_k__approx_less_one == nPoints - 1

\* Particle::get_k__approx.
get_k__approx == nPoints

get_k__exact_less_one(me) ==
    LET c == annkFRSearch(x[me], h * h, 0).cnt
    IN  IF c > 0 THEN c - 1 ELSE 0

\* Particle::get_k__exact: a counting query, k = 0.
get_k__exact(me) == annkFRSearch(x[me], h * h, 0).cnt

\* The loop of lines 168-179 from entry i on: nb is the neighbor list so
\* far.  The loop ends at k, at the first ANN_NULL_IDX, or in exit(1).
RECURSIVE find_loop(_, _, _, _, _)
find_loop(me, res, k, i, nb) ==
    IF i > k \/ res.nn_idx[i] = ANN_NULL_IDX THEN [nb |-> nb, exited |-> FALSE]
    ELSE Val({ CASE o.kind = "exit" -> [nb |-> nb, exited |-> TRUE]
                 [] o.kind = "push" ->
                      Val({ find_loop(me, res, k, i + 1, nb1) :
                            nb1 \in {Append(nb, o.edge)} })
                 [] OTHER -> find_loop(me, res, k, i + 1, nb) :
               o \in {add_outcome(me, res.nn_idx[i], res.dists[i])} })

\* Particle::find_neighbors as a function of the state: the neighbor list
\* it leaves and whether it ended in exit(1).  The list it starts from is
\* the particle's own: line 144 (emptying it) is a comment.
find_result(me, use_exact_k, nb0) ==
    Val({ find_loop(me, res, k, 1, nb0) :
          k \in {IF use_exact_k THEN get_k__exact(me) ELSE get_k__approx},
          res \in {annkFRSearch(x[me], h * h,
                     IF use_exact_k THEN get_k__exact(me) ELSE get_k__approx)} })

----------------------------------------------------------------------------
(* The neighbor lists: state machine. *)

CtorIdle ==
    /\ sysargs = <<>>
    /\ sysfields = <<>>
    /\ pid_arg = -1
    /\ pfields = <<>>

RdmeIdle ==
    /\ rdme = [matrices |-> 0, initialized |-> 0, heap |-> 0,
               total_reactions |-> 0, total_diffusion |-> 0]
    /\ rdme_held = 0
    /\ rdme_err = "none"

NbIdle ==
    /\ h = 0
    /\ x = [p \in Ids |-> Origin]
    /\ mass = [p \in Ids |-> 1]
    /\ rho = [p \in Ids |-> 1]
    /\ neighbors = [p \in Ids |-> <<>>]
    /\ kdTree_pts = <<>>
    /\ kdTree_initialize = FALSE
    /\ exited = FALSE
    /\ rc = -1
    /\ hist = [p \in Ids |-> "empty"]

\* The particles as constructed (lines 45-53: x = 0, no neighbors) and the
\* system as constructed (line 33: no k-d tree yet); h, mass and rho are
\* whatever the model that was loaded set them to (particle 0 keeps the
\* constructor's mass, 1).
Init ==
    /\ h \in HValues
    /\ x = [p \in Ids |-> Origin]
    /\ mass \in {m \in [Ids -> MassValues] : m[0] = 1}
    /\ rho \in [Ids -> RhoValues]
    /\ neighbors = [p \in Ids |-> <<>>]
    /\ kdTree_pts = <<>>
    /\ kdTree_initialize = FALSE
    /\ exited = FALSE
    /\ rc = -1
    /\ hist = [p \in Ids |-> "empty"]
    /\ CtorIdle
    /\ RdmeIdle

\* A particle moves (along the first axis).  The index is bound to the
\* positions it was built from: the move invalidates it.
set_position(p, a) ==
    /\ ~exited
    /\ a # x[p][1]
    /\ x' = [x EXCEPT ![p] = <<a, x[p][2], x[p][3]>>]
    /\ kdTree_initialize' = FALSE
    /\ kdTree_pts' = <<>>
    /\ hist' = [q \in Ids |-> IF hist[q] = "empty" THEN "empty" ELSE "other"]
    /\ UNCHANGED <<h, mass, rho, neighbors, exited, rc>>

\* The k-d tree is (re)built from the current positions.
build_kdtree ==
    /\ ~exited
    /\ ~kdTree_initialize
    /\ kdTree_pts' = x
    /\ kdTree_initialize' = TRUE
    /\ UNCHANGED <<h, x, mass, rho, neighbors, exited, rc, hist>>

\* Particle::add_to_neighbor_list(neighbor, system, r2) called on particle me.
add_to_neighbor_list(me, neighbor, r2) ==
    /\ ~exited
    /\ Len(neighbors[me]) < MaxNeighbors
    /\ \E o \in {add_outcome(me, neighbor, r2)} :
           /\ neighbors' = IF o.kind = "push"
                           THEN [neighbors EXCEPT ![me] = Append(@, o.edge)]
                           ELSE neighbors
           /\ exited' = (o.kind = "exit")
           /\ rc' = CASE o.kind = "push" -> 1
                      [] o.kind = "out" -> 0
                      [] OTHER -> rc
           /\ hist' = IF o.kind = "push" THEN [hist EXCEPT ![me] = "other"]
                      ELSE hist
    /\ UNCHANGED <<h, x, mass, rho, kdTree_pts, kdTree_initialize>>

\* Particle::find_neighbors(system, use_exact_k) called on particle me.  It
\* is called on an index built from the current positions: rebuilding after
\* a move is the caller's duty.
find_neighbors(me, use_exact_k) ==
    /\ ~exited
    /\ kdTree_initialize
    /\ Len(neighbors[me]) + get_k__exact(me) <= MaxNeighbors
    /\ \E res \in {find_result(me, use_exact_k, neighbors[me])} :
           /\ neighbors' = [neighbors EXCEPT ![me] = res.nb]
           /\ exited' = res.exited
           /\ hist' = [hist EXCEPT ![me] =
                         IF res.exited \/ hist[me] # "empty" THEN "other"
                         ELSE IF use_exact_k THEN "exact" ELSE "approx"]
    /\ UNCHANGED <<h, x, mass, rho, kdTree_pts, kdTree_initialize, rc>>

\* What a caller passes as r2: the squared distance of the pair, or the
\* marker of a distance that was not measured.
R2Inputs(p, q) == {ANN_DIST_INF, particle_dist_sqrd(p, q)}

Next ==
    \/ \E p \in Movers, a \in Coords : set_position(p, a) /\ UNCHANGED <<ctorvars, rdmevars>>
    \/ build_kdtree /\ UNCHANGED <<ctorvars, rdmevars>>
    \/ \E p \in Ids, q \in Ids : \E r2 \in R2Inputs(p, q) :
          add_to_neighbor_list(p, q, r2) /\ UNCHANGED <<ctorvars, rdmevars>>
    \/ \E p \in Ids, e \in BOOLEAN : find_neighbors(p, e) /\ UNCHANGED <<ctorvars, rdmevars>>

Spec == Init /\ [][Next]_vars

----------------------------------------------------------------------------
(* Properties of the neighbor lists. *)

FLe(a, b) == ~isnan(a) /\ ~isnan(b) /\ ~FGt(a, b)

EdgesOf(p) == {neighbors[p][i] : i \in 1 .. Len(neighbors[p])}

NeighborIds(nb) == {nb[i].n : i \in 1 .. Len(nb)}

\* The indexed particles within the support radius of particle p.
WithinSupport(p) == InRadius(x[p], h * h)

\* The distance add_to_neighbor_list(me, neighbor, r2) works with.
CallDistance(me, neighbor, r2) == Isqrt(effective_r2(me, neighbor, r2))

\* C1: with h constant, after any sequence of add_to_neighbor_list and
\* find_neighbors calls every edge stored in a neighbor list has r <= h.
C1_EdgesWithinSupport ==
    \A p \in Ids : \A e \in EdgesOf(p) : FLe(e.r, Num(h))

\* A call was cut off (returned 0) and an edge at the boundary r = h > 0 is
\* stored.
C1_Witness ==
    /\ rc = 0
    /\ h > 0
    /\ \E p \in Ids : \E e \in EdgesOf(p) : e.r = Num(h)

\* C2, as stated: for a pair at distance r >= h (r = h included) a call
\* that returns creates no edge: it returns 0 and leaves the list as it was.
C2_NoEdgeAtOrBeyondSupport ==
    [][\A p \in Ids, q \in Ids : \A r2 \in R2Inputs(p, q) :
         (/\ add_to_neighbor_list(p, q, r2)
          /\ ~exited'
          /\ CallDistance(p, q, r2) >= h)
         => (rc' = 0 /\ neighbors' = neighbors)]_vars

\* C2, amended: for a pair at distance r > h the call returns 0 and leaves
\* the list as it was; at r = h the pair is not cut off: a call that
\* returns has appended an edge with r = h and returned 1.
C2_NoEdgeBeyondSupport ==
    [][\A p \in Ids, q \in Ids : \A r2 \in R2Inputs(p, q) :
         add_to_neighbor_list(p, q, r2) =>
           /\ CallDistance(p, q, r2) > h => (rc' = 0 /\ neighbors' = neighbors)
           /\ (CallDistance(p, q, r2) = h /\ ~exited') =>
                /\ rc' = 1
                /\ Len(neighbors'[p]) = Len(neighbors[p]) + 1
                /\ neighbors'[p][Len(neighbors'[p])].r = Num(h)
                /\ neighbors'[p][Len(neighbors'[p])].n = q]_vars

\* A call returned 0 and no list holds an edge.
C2_Witness ==
    /\ rc = 0
    /\ \A p \in Ids : neighbors[p] = <<>>
    /\ \E p \in Ids, q \in Ids : particle_dist_sqrd(p, q) > h * h

\* C3: no stored edge has a D_i_j that is not a finite number.
C3_NoNonFiniteEdge ==
    \A p \in Ids : \A e \in EdgesOf(p) : isfinite(e.D_i_j)

\* C4: a find_neighbors call on a list that is empty or the result of one
\* earlier build leaves exactly one edge per indexed particle within the
\* support radius, and nothing else.
C4_ListRebuilt ==
    [][\A p \in Ids, e \in BOOLEAN :
         (/\ find_neighbors(p, e)
          /\ hist[p] \in {"empty", "exact", "approx"}
          /\ ~exited')
         => /\ NeighborIds(neighbors'[p]) = WithinSupport(p)
            /\ Len(neighbors'[p]) = Cardinality(WithinSupport(p))]_vars

\* C5: on a built index the exact and the approximate mode of
\* find_neighbors append the same edges, one per indexed point within the
\* radius and none outside it; a list built once in either mode is that
\* list.
C5_ModesAgree ==
    kdTree_initialize =>
      \A p \in Ids :
        \A ex \in {find_result(p, TRUE, <<>>)}, ap \in {find_result(p, FALSE, <<>>)} :
            /\ ex = ap
            /\ ~ex.exited =>
                 /\ NeighborIds(ex.nb) = WithinSupport(p)
                 /\ Len(ex.nb) = Cardinality(WithinSupport(p))
            /\ hist[p] \in {"exact", "approx"} => neighbors[p] = ex.nb

\* One list was built in approximate mode, the other in exact mode, and
\* each holds fewer edges than there are indexed points.
C5_Witness ==
    /\ kdTree_initialize
    /\ \E p \in Ids, q \in Ids :
         /\ hist[p] = "approx"
         /\ hist[q] = "exact"
         /\ Len(neighbors[p]) = 1
         /\ Len(neighbors[q]) = 1
         /\ nPoints = 2

\* Edges e of p's list and f of q's list that are each other's reverse at
\* the same distance.
Reverse(p, q, e, f) == p # q /\ e.n = q /\ f.n = p /\ e.r = f.r

BuiltOnce == \A p \in Ids : hist[p] \in {"exact", "approx"}

\* C9: when every particle has run find_neighbors exactly once from an
\* empty list on the same index, a lists b exactly if b lists a, and the
\* two edges carry the same r.
C9_SymmetricMembership ==
    BuiltOnce =>
      \A a \in Ids, b \in Ids :
        /\ (b \in NeighborIds(neighbors[a])) <=> (a \in NeighborIds(neighbors[b]))
        /\ \A e \in EdgesOf(a), f \in EdgesOf(b) :
             (e.n = b /\ f.n = a) => e.r = f.r

\* Every particle built its list once and two different particles, apart
\* from each other, list each other.
C9_Witness ==
    /\ BuiltOnce
    /\ \E a \in Ids, b \in Ids : \E e \in EdgesOf(a) :
         a # b /\ e.n = b /\ FGt(e.r, Num(0))

\* C10: for h > 0 and positive mass and density of both particles every
\* stored edge has D_i_j >= 0 and dWdr <= 0, D_i_j = 0 exactly when r = 0
\* or r = h, and the edge of a particle to itself has r = 0 and D_i_j = 0.
C10_SignsAndZeros ==
    h > 0 =>
      \A p \in Ids : \A e \in EdgesOf(p) :
        (mass[p] > 0 /\ mass[e.n] > 0 /\ rho[p] > 0 /\ rho[e.n] > 0) =>
          /\ isfinite(e.D_i_j) /\ ~FGt(Num(0), e.D_i_j)
          /\ isfinite(e.dWdr) /\ ~FGt(e.dWdr, Num(0))
          /\ IsZero(e.D_i_j) <=> (e.r = Num(0) \/ e.r = Num(h))
          /\ e.n = p => (e.r = Num(0) /\ IsZero(e.D_i_j))

\* A list built by one find_neighbors call holds the particle's edge to
\* itself and an edge strictly inside the radius with D_i_j > 0, dWdr < 0.
C10_Witness ==
    \E p \in Ids :
      /\ hist[p] \in {"exact", "approx"}
      /\ rho[p] > 0
      /\ \E e \in EdgesOf(p) : e.n = p
      /\ \E e \in EdgesOf(p) :
           /\ e.n # p /\ rho[e.n] > 0
           /\ FGt(e.r, Num(0)) /\ FGt(Num(h), e.r)
           /\ FGt(e.D_i_j, Num(0)) /\ FGt(Num(0), e.dWdr)

----------------------------------------------------------------------------
(* The constructors. *)

Counts == 0 .. MaxCount

CountFields == {"num_types", "num_chem_species", "num_chem_rxns",
                "num_stoch_species", "num_stoch_rxns", "num_data_fn"}

\* ParticleSystem::ParticleSystem.  Lines 26-30 and 32 assign each parameter
\* to itself (the parameter hides the member of the same name), so the
\* members keep the indeterminate values of uninitialized storage: u.
ParticleSystem_ctor(args, u) ==
    /\ sysargs = <<>>
    /\ sysargs' = args
    /\ sysfields' = [dimension |-> 3,
                     boundary_conditions |-> <<"n", "n", "n">>,
                     static_domain |-> 0,
                     num_stoch_species |-> u.num_stoch_species,
                     num_stoch_rxns |-> u.num_stoch_rxns,
                     num_chem_species |-> u.num_chem_species,
                     num_chem_rxns |-> u.num_chem_rxns,
                     num_types |-> u.num_types,
                     gravity |-> <<0, 0, 0>>,
                     num_data_fn |-> u.num_data_fn,
                     kdTree_initialize |-> FALSE]
    /\ UNCHANGED <<pid_arg, pfields>>

\* Particle::Particle(int id).  Line 46 assigns the parameter to itself:
\* the member id keeps an indeterminate value u.  nu = 0.01 is <<1, 100>>.
Particle_ctor(id, u) ==
    /\ pid_arg = -1
    /\ pid_arg' = id
    /\ pfields' = [id |-> u, nu |-> <<1, 100>>, mass |-> 1, rho |-> 1,
                   solidTag |-> 0, x |-> Origin, v |-> Origin]
    /\ UNCHANGED <<sysargs, sysfields>>

InitCtor == CtorIdle /\ NbIdle /\ RdmeIdle

NextCtor ==
    \/ \E args \in [CountFields -> Counts], u \in [CountFields -> Counts] :
          ParticleSystem_ctor(args, u) /\ UNCHANGED <<nbvars, rdmevars>>
    \/ \E id \in Counts, u \in Counts :
          Particle_ctor(id, u) /\ UNCHANGED <<nbvars, rdmevars>>

SpecCtor == InitCtor /\ [][NextCtor]_vars

\* C8: after the ParticleSystem constructor each count field equals the
\* argument of the same name, and after Particle(id) the id field equals
\* the argument.
C8_CtorArgsStored ==
    /\ sysargs # <<>> => \A f \in CountFields : sysfields[f] = sysargs[f]
    /\ pid_arg # -1 => pfields.id = pid_arg

----------------------------------------------------------------------------
(* The rdme lifecycle.  simulate_rdme.h declares the state and the three   *)
(* entry points; their bodies follow the lifecycle the documentation       *)
(* gives: the initialized flag guards every one of them.                   *)

Events == 0 .. MaxEvents

\* initialize_rdme: builds the matrices, the populations, the propensities
\* and the heap, unless the state is already initialized.
initialize_rdme ==
    /\ IF rdme.initialized = 1
       THEN UNCHANGED <<rdme, rdme_held>>
       ELSE /\ rdme' = [matrices |-> 1, initialized |-> 1, heap |-> 1,
                        total_reactions |-> 0, total_diffusion |-> 0]
            /\ rdme_held' = rdme_held + 1
    /\ rdme_err' = "none"

\* simulate_rdme(system, step): fires nr reaction and nd diffusion events up
\* to the end of the step; before initialize_rdme it signals a precondition
\* violation and touches nothing.
simulate_rdme(nr, nd) ==
    IF rdme.initialized = 0
    THEN /\ rdme_err' = "precondition_violation"
         /\ UNCHANGED <<rdme, rdme_held>>
    ELSE /\ rdme.total_reactions + nr <= MaxEvents
         /\ rdme.total_diffusion + nd <= MaxEvents
         /\ rdme' = [rdme EXCEPT !.total_reactions = @ + nr,
                                 !.total_diffusion = @ + nd]
         /\ rdme_err' = "none"
         /\ UNCHANGED rdme_held

destroy_rdme_unguarded ==
    /\ rdme' = [rdme EXCEPT !.matrices = 0, !.heap = 0, !.initialized = 0]
    /\ rdme_held' = rdme_held - 1
    /\ rdme_err' = "none"

\* destroy_rdme: releases the matrices and the heap; on a state that is not
\* initialized it releases nothing and signals the violation.
destroy_rdme ==
    IF rdme.initialized = 0
    THEN /\ rdme_err' = "precondition_violation"
         /\ UNCHANGED <<rdme, rdme_held>>
    ELSE /\ rdme' = [rdme EXCEPT !.matrices = 0, !.heap = 0, !.initialized = 0]
         /\ rdme_held' = rdme_held - 1
         /\ rdme_err' = "none"

InitRdme == RdmeIdle /\ NbIdle /\ CtorIdle

NextRdme ==
    \/ initialize_rdme /\ UNCHANGED <<nbvars, ctorvars>>
    \/ \E nr \in Events, nd \in Events :
          simulate_rdme(nr, nd) /\ UNCHANGED <<nbvars, ctorvars>>
    \/ destroy_rdme /\ UNCHANGED <<nbvars, ctorvars>>

SpecRdme == InitRdme /\ [][NextRdme]_vars

\* C7: simulate_rdme before initialize_rdme signals a precondition
\* violation and changes no state; initialize_rdme on an initialized state
\* rebuilds nothing; destroy_rdme on a state that is not initialized
\* releases nothing; what is held is released at most once.
C7_LifecycleGuarded ==
    [][/\ \A nr \in Events, nd \in Events :
            (simulate_rdme(nr, nd) /\ rdme.initialized = 0) =>
               /\ rdme' = rdme
               /\ rdme_held' = rdme_held
               /\ rdme_err' = "precondition_violation"
       /\ (initialize_rdme /\ rdme.initialized = 1) =>
               (rdme' = rdme /\ rdme_held' = rdme_held)
       /\ (destroy_rdme /\ rdme.initialized = 0) =>
               (rdme' = rdme /\ rdme_held' = rdme_held)
       /\ rdme_held' \in {0, 1}
       /\ rdme_held' = rdme'.initialized]_vars

\* After a run that fired events and was destroyed, a further call was
\* refused.
C7_Witness ==
    /\ rdme.initialized = 0
    /\ rdme_held = 0
    /\ rdme.total_reactions > 0
    /\ rdme.total_diffusion > 0
    /\ rdme_err = "precondition_violation"

====
